---- MODULE Spec2Model ----
(***************************************************************************)
(* Model of src/app.py: the ball-detection record pipeline (detect_ball),  *)
(* the statistics over the JSON history file (get_statistics), the two     *)
(* report handlers (download_pdf, download_excel) and the page handler     *)
(* (index).                                                                *)
(*                                                                         *)
(* Numbers.  A detection score is a float32; the model draws scores from   *)
(* the eighths n/8, which are exact floats, so that round(x, 2) and        *)
(* format(x, ".2f") are exactly round-half-even on them.  A stored         *)
(* confidence is a count of hundredths.  A mean of stored confidences is   *)
(* computed in floating point: away from a tie its rounding is the exact   *)
(* one, on a tie either neighbour can come out, and the model keeps both.  *)
(* Pixel coordinates of the collaborator are floats, drawn from the halves *)
(* h/2; int() truncates them.                                              *)
(***************************************************************************)
EXTENDS Integers, Sequences, FiniteSets, TLC

VARIABLES
    hist,       \* the file HISTORY_FILE
    resultDir,  \* RESULT_DIR: for each file name, the image last written
    call,       \* the operation last invoked, with its arguments and the
                \* class ids the collaborator returned to it
    resp,       \* what that operation returned or raised
    pc,         \* concurrent requests: position of each request
    prec,       \* concurrent requests: the record each request built
    pdata,      \* concurrent requests: the list each request holds in memory
    writer      \* concurrent requests: whose rewrite of the file came last

vars == <<hist, resultDir, call, resp, pc, prec, pdata, writer>>

----------------------------------------------------------------------------
\* Bounds of the model

MaxLog == 2        \* records the history may hold before detection stops
MaxResults == 2    \* result objects the collaborator returns at most
MaxBoxes == 2      \* boxes the collaborator returns in all at most

\* the files a request can name: an image, and a file cv2 cannot read
Files == { [name |-> "a.jpg", readable |-> TRUE],
           [name |-> "c.txt", readable |-> FALSE] }

Images == { f.name : f \in Files }

\* what datetime.now().strftime(...) of line 55 can give
Dates == {"2026-11-05 10:00:00"}

Procs == {1, 2}

----------------------------------------------------------------------------
\* Program constants

UPLOAD_DIR == "uploads"
SPORTS_BALL == 32

None == <<>>

----------------------------------------------------------------------------
\* The detection collaborator: model(image) returns result objects, each
\* with a list of boxes (class id, score in eighths, corners in half pixels)

BoxSet ==
    { [cls |-> 32, conf |-> 5, xyxy |-> <<3, 3, 7, 7>>],
      [cls |-> 32, conf |-> 6, xyxy |-> <<4, 5, 8, 9>>],
      [cls |-> 0,  conf |-> 7, xyxy |-> <<0, 0, 9, 9>>] }

SeqsUpTo(S, n) == UNION { [1..k -> S] : k \in 0..n }

\* the lists of k result objects, each with a box at least, that hold n
\* boxes at most in all
RECURSIVE Batches(_, _)
Batches(k, n) ==
    IF k = 0 THEN {<<>>}
    ELSE UNION { { <<r>> \o rest : rest \in Batches(k - 1, n - Len(r)) } :
                 r \in SeqsUpTo(BoxSet, n) \ {<<>>} }

\* what model(image) returns: one result object, which may hold no box,
\* or a batch of several
ResultsSet ==
    { <<r>> : r \in SeqsUpTo(BoxSet, MaxBoxes) }
      \cup UNION { Batches(k, MaxBoxes) : k \in 2..MaxResults }

\* int(box.cls[0]) of line 36, over every box of every result object
ClassesOf(results) ==
    { results[i][j].cls : <<i, j>> \in
        { ij \in (1..Len(results)) \X (1..MaxBoxes) :
            ij[2] <= Len(results[ij[1]]) } }

----------------------------------------------------------------------------
\* Conversions

\* round(confidence, 2) of the score n/8, in hundredths: n*100/8 = n*25/2,
\* an exact tie going to the even neighbour
Round2(n) ==
    LET q == (n * 25) \div 2
        r == (n * 25) % 2
    IN  IF r = 0 THEN q
        ELSE IF q % 2 = 0 THEN q ELSE q + 1

\* f"{conf:.2f}" of the score n/8: the same correctly rounded conversion
Fmt2(n) == Round2(n)

\* int(v) of the coordinate h/2 (coordinates are not negative)
ToInt(h) == h \div 2

IntBox(xyxy) == [i \in 1..4 |-> ToInt(xyxy[i])]

Basename(path) == path[2]

Join(dir, name) == <<dir, name>>

----------------------------------------------------------------------------
\* detect_ball, lines 30-47: the scan of the collaborator's results

InitScan == [ball_detected |-> FALSE, confidence |-> 0, bbox |-> None,
             drawn |-> <<>>]

\* variant: the class test accepts every class
RECURSIVE ScanBoxesAnyClass(_, _)
ScanBoxesAnyClass(boxes, acc) ==
    IF boxes = <<>> THEN acc
    ELSE LET box == Head(boxes) IN
         [ball_detected |-> TRUE,
          confidence |-> box.conf,
          bbox |-> IntBox(box.xyxy),
          drawn |-> Append(acc.drawn,
                           [rect |-> IntBox(box.xyxy),
                            label |-> Fmt2(box.conf)])]

\* variant: confidence is assigned before the class test
RECURSIVE ScanBoxesConfLeak(_, _)
ScanBoxesConfLeak(boxes, acc) ==
    IF boxes = <<>> THEN acc
    ELSE LET box == Head(boxes) IN
         IF box.cls = SPORTS_BALL
         THEN [ball_detected |-> TRUE,
               confidence |-> box.conf,
               bbox |-> IntBox(box.xyxy),
               drawn |-> Append(acc.drawn,
                                [rect |-> IntBox(box.xyxy),
                                 label |-> Fmt2(box.conf)])]
         ELSE ScanBoxesConfLeak(Tail(boxes),
                                [acc EXCEPT !.confidence = box.conf])

\* the inner loop "for box in r.boxes", left by break at the first ball
RECURSIVE ScanBoxes(_, _)
ScanBoxes(boxes, acc) ==
    IF boxes = <<>> THEN acc
    ELSE LET box == Head(boxes) IN
         IF box.cls = SPORTS_BALL
         THEN [ball_detected |-> TRUE,
               confidence |-> box.conf,
               bbox |-> IntBox(box.xyxy),
               drawn |-> Append(acc.drawn,
                                [rect |-> IntBox(box.xyxy),
                                 label |-> Fmt2(box.conf)])]
         ELSE ScanBoxes(Tail(boxes), acc)

\* the outer loop "for r in results": the break above does not leave it
RECURSIVE ScanResults(_, _)
ScanResults(results, acc) ==
    IF results = <<>> THEN acc
    ELSE ScanResults(Tail(results), ScanBoxes(Head(results), acc))

\* the record of lines 54-60; confidence is stored in hundredths, and
\* round(0, 2) of the initial 0 is 0
MakeRecord(date, filename, scan) ==
    [date |-> date,
     image |-> filename,
     ball_detected |-> scan.ball_detected,
     confidence |-> Round2(scan.confidence),
     bbox |-> scan.bbox]

----------------------------------------------------------------------------
\* The history file and its JSON text

Missing == [state |-> "missing", doc |-> <<>>]
Empty   == [state |-> "empty",   doc |-> <<>>]     \* present, 0 bytes
Garbage == [state |-> "garbage", doc |-> <<>>]     \* present, not JSON

JsonOfRecord(r) ==
    [date |-> r.date,
     image |-> r.image,
     ball_detected |-> IF r.ball_detected THEN "true" ELSE "false",
     confidence |-> r.confidence,
     bbox |-> IF r.bbox = None THEN [tok |-> "null", items |-> <<>>]
              ELSE [tok |-> "array", items |-> r.bbox]]

RecordOfJson(j) ==
    [date |-> j.date,
     image |-> j.image,
     ball_detected |-> (j.ball_detected = "true"),
     confidence |-> j.confidence,
     bbox |-> IF j.bbox.tok = "null" THEN None ELSE j.bbox.items]

\* json.dump(data, f) into the file opened with "w"
JsonDump(data) ==
    [state |-> "json", doc |-> [i \in 1..Len(data) |-> JsonOfRecord(data[i])]]

\* json.load(f) of a file that holds JSON text
JsonLoad(h) == [i \in 1..Len(h.doc) |-> RecordOfJson(h.doc[i])]

\* variant: only os.path.exists(HISTORY_FILE) is tested
HasContentExistsOnly(h) == h.state # "missing"

\* os.path.exists(HISTORY_FILE) and os.path.getsize(HISTORY_FILE) > 0
HasContent(h) == h.state \in {"json", "garbage"}

\* the read of lines 62-66 (and 77-81, 98-102, 148-152, 189-193):
\* json.load raises on text that is not JSON
ReadFails(h) == HasContent(h) /\ h.state # "json"

\* variant: the file is never loaded, data starts empty
ReadHistoryNever(h) == <<>>

ReadHistory(h) == IF HasContent(h) THEN JsonLoad(h) ELSE <<>>

\* variant: data.insert(0, record)
AppendRecordFirst(data, record) == <<record>> \o data

\* line 68: data.append(record)
AppendRecord(data, record) == Append(data, record)

----------------------------------------------------------------------------
\* Aggregates over a loaded history

\* sum(1 for r in history if r["ball_detected"])
RECURSIVE CountFound(_)
CountFound(history) ==
    IF history = <<>> THEN 0
    ELSE (IF Head(history).ball_detected THEN 1 ELSE 0)
         + CountFound(Tail(history))

\* sum(r["confidence"] for r in history), in hundredths
RECURSIVE SumConfidence(_)
SumConfidence(history) ==
    IF history = <<>> THEN 0
    ELSE Head(history).confidence + SumConfidence(Tail(history))

\* the integers a floating-point rounding of s/n can give: the nearest
\* one, and both neighbours when s/n lies exactly between them
RoundQuotient(s, n) ==
    LET q == s \div n
        r == s % n
    IN  IF 2 * r < n THEN {q}
        ELSE IF 2 * r > n THEN {q + 1}
        ELSE {q, q + 1}

\* variant: the mean is taken over the records with a ball only
AvgConfidenceOfFound(history) ==
    IF CountFound(history) > 0
    THEN RoundQuotient(SumConfidence(history), CountFound(history))
    ELSE {0}

\* line 86: round(sum / total, 2) if total > 0 else 0, in hundredths
AvgConfidence(history) ==
    IF Len(history) > 0
    THEN RoundQuotient(SumConfidence(history), Len(history))
    ELSE {0}

\* get_statistics, lines 83-93: the dictionaries it can return for a history
StatsOf(history) ==
    { [total_images |-> Len(history),
       found |-> CountFound(history),
       not_found |-> Len(history) - CountFound(history),
       avg_confidence |-> a] : a \in AvgConfidence(history) }

\* variant: the mean is rounded to hundredths first, as in get_statistics
AvgPercentOfRounded(history) ==
    { 10 * a : a \in AvgConfidence(history) }

\* f"{avg_confidence*100:.1f}%" of lines 139 and 165, in tenths of a percent:
\* the mean is not rounded to hundredths before it is formatted
AvgPercent(history) ==
    IF Len(history) > 0
    THEN RoundQuotient(10 * SumConfidence(history), Len(history))
    ELSE {0}

\* the unrounded mean of lines 132 and 158, as a fraction of hundredths
AvgRaw(history) ==
    IF Len(history) > 0
    THEN [num |-> SumConfidence(history), den |-> Len(history)]
    ELSE [num |-> 0, den |-> 1]

\* lines 118-126: one line per record
PdfLine(record) ==
    [date |-> record.date,
     image |-> record.image,
     status |-> IF record.ball_detected THEN "found" ELSE "not_found",
     percent |-> 10 * record.confidence,
     explanation |-> IF record.ball_detected THEN "located" ELSE "not_found"]

\* download_pdf, lines 128-139: the summary block
PdfSummaries(history) ==
    { [total_images |-> Len(history),
       found |-> CountFound(history),
       not_found |-> Len(history) - CountFound(history),
       avg_percent |-> a] : a \in AvgPercent(history) }

\* download_excel, lines 155-166: the trailing row
ExcelSummaries(history) ==
    { [date |-> "Itog",
       image |-> "",
       ball_detected |-> CountFound(history),
       confidence |-> AvgRaw(history),
       explanation |-> [total_images |-> Len(history),
                        found |-> CountFound(history),
                        not_found |-> Len(history) - CountFound(history),
                        avg_percent |-> a]] : a \in AvgPercent(history) }

----------------------------------------------------------------------------
\* detect_ball as a whole, on the history file h and the result directory rd

NoImage == [present |-> FALSE, drawn |-> <<>>]

NoVal == [none |-> TRUE]

\* variant: the history is rewritten before cv2.imwrite is called
DetectBallOnLogFirst(h, rd, image_path, readable, results, t) ==
    LET scan == ScanResults(results, InitScan)
        filename == Basename(image_path)
        record == MakeRecord(t, filename, scan)
        written == [rd EXCEPT ![filename] =
                       [present |-> TRUE, drawn |-> scan.drawn]]
        logged == JsonDump(AppendRecord(ReadHistory(h), record))
    IN  IF ~readable /\ scan.ball_detected
        THEN [err |-> "cv2.error", at |-> 44,
              hist |-> h, resultDir |-> rd, val |-> NoVal]
        ELSE IF ReadFails(h)
        THEN [err |-> "JSONDecodeError", at |-> 64,
              hist |-> h, resultDir |-> rd, val |-> NoVal]
        ELSE IF ~readable
        THEN [err |-> "cv2.error", at |-> 51,
              hist |-> logged, resultDir |-> rd, val |-> NoVal]
        ELSE [err |-> "none", at |-> 73,
              hist |-> logged, resultDir |-> written,
              val |-> [filename |-> filename, record |-> record]]

DetectBallOn(h, rd, image_path, readable, results, t) ==
    LET scan == ScanResults(results, InitScan)
        filename == Basename(image_path)
        record == MakeRecord(t, filename, scan)
        written == [rd EXCEPT ![filename] =
                       [present |-> TRUE, drawn |-> scan.drawn]]
    IN  IF ~readable
        THEN \* cv2.imread returned None: the first drawing call, or else
             \* cv2.imwrite, raises
             [err |-> "cv2.error",
              at |-> IF scan.ball_detected THEN 44 ELSE 51,
              hist |-> h, resultDir |-> rd, val |-> NoVal]
        ELSE IF ReadFails(h)
        THEN [err |-> "JSONDecodeError", at |-> 64,
              hist |-> h, resultDir |-> written, val |-> NoVal]
        ELSE [err |-> "none", at |-> 73,
              hist |-> JsonDump(AppendRecord(ReadHistory(h), record)),
              resultDir |-> written,
              val |-> [filename |-> filename, record |-> record]]

\* the history has room for one more record within the bound of the model
Room(h) == h.state = "json" => Len(h.doc) < MaxLog

----------------------------------------------------------------------------
\* Sequential operations

DetectBall(name, readable, results, date) ==
    LET image_path == Join(UPLOAD_DIR, name) IN
    \E d \in { DetectBallOn(hist, resultDir, image_path, readable,
                             results, date) } :
        /\ Room(hist)
        /\ call' = [op |-> "detect_ball", image_path |-> image_path,
                    readable |-> readable, classes |-> ClassesOf(results)]
        /\ hist' = d.hist
        /\ resultDir' = d.resultDir
        /\ resp' = [op |-> "detect_ball", err |-> d.err, at |-> d.at,
                    val |-> d.val]
        /\ UNCHANGED <<pc, prec, pdata, writer>>

GetStatistics ==
    /\ call' = [op |-> "get_statistics"]
    /\ IF ReadFails(hist)
       THEN resp' = [op |-> "get_statistics", err |-> "JSONDecodeError",
                     at |-> 79, val |-> NoVal]
       ELSE \E st \in StatsOf(ReadHistory(hist)) :
               resp' = [op |-> "get_statistics", err |-> "none", at |-> 88,
                        val |-> st]
    /\ UNCHANGED <<hist, resultDir, pc, prec, pdata, writer>>

DownloadPdf ==
    /\ call' = [op |-> "download_pdf"]
    /\ IF ReadFails(hist)
       THEN resp' = [op |-> "download_pdf", err |-> "JSONDecodeError",
                     at |-> 100, val |-> NoVal]
       ELSE LET history == ReadHistory(hist) IN
            \E sm \in PdfSummaries(history) :
               resp' = [op |-> "download_pdf", err |-> "none", at |-> 143,
                        val |-> [lines |-> [i \in 1..Len(history) |->
                                               PdfLine(history[i])],
                                 summary |-> sm]]
    /\ UNCHANGED <<hist, resultDir, pc, prec, pdata, writer>>

DownloadExcel ==
    /\ call' = [op |-> "download_excel"]
    /\ IF ReadFails(hist)
       THEN resp' = [op |-> "download_excel", err |-> "JSONDecodeError",
                     at |-> 150, val |-> NoVal]
       ELSE LET history == ReadHistory(hist) IN
            \E sm \in ExcelSummaries(history) :
               resp' = [op |-> "download_excel", err |-> "none", at |-> 171,
                        val |-> [rows |-> history, summary |-> sm]]
    /\ UNCHANGED <<hist, resultDir, pc, prec, pdata, writer>>

\* variant: the page is rendered without loading the history
RenderOnNoHistory(h, result) ==
    IF ReadFails(h)
    THEN { [op |-> "index", err |-> "JSONDecodeError", at |-> 191,
            val |-> NoVal] }
    ELSE { [op |-> "index", err |-> "none", at |-> 196,
            val |-> [result |-> result, history |-> <<>>,
                     stats |-> st]] : st \in StatsOf(ReadHistory(h)) }

\* lines 189-196 of index: load the history, take the statistics, render
RenderOn(h, result) ==
    IF ReadFails(h)
    THEN { [op |-> "index", err |-> "JSONDecodeError", at |-> 191,
            val |-> NoVal] }
    ELSE { [op |-> "index", err |-> "none", at |-> 196,
            val |-> [result |-> result, history |-> ReadHistory(h),
                     stats |-> st]] : st \in StatsOf(ReadHistory(h)) }

\* GET /
IndexGet ==
    /\ call' = [op |-> "index", method |-> "GET"]
    /\ resp' \in RenderOn(hist, NoVal)
    /\ UNCHANGED <<hist, resultDir, pc, prec, pdata, writer>>

\* POST / without a file to process: the form has no "image" field
\* (request.files["image"] raises), or the field has an empty file name
\* (the FileStorage is falsy)
IndexPostNoFile(field) ==
    /\ call' = [op |-> "index", method |-> "POST", field |-> field,
                filename |-> "", readable |-> FALSE, classes |-> {}]
    /\ IF ~field
       THEN resp' = [op |-> "index", err |-> "BadRequestKeyError",
                     at |-> 183, val |-> NoVal]
       ELSE resp' \in RenderOn(hist, NoVal)
    /\ UNCHANGED <<hist, resultDir, pc, prec, pdata, writer>>

\* POST / with a named file in the "image" field
IndexPostFile(name, readable, results, date) ==
    LET path == Join(UPLOAD_DIR, name) IN
    \E d \in { DetectBallOn(hist, resultDir, path, readable,
                             results, date) } :
        /\ Room(hist)
        /\ call' = [op |-> "index", method |-> "POST", field |-> TRUE,
                    filename |-> name, readable |-> readable,
                    classes |-> ClassesOf(results)]
        /\ hist' = d.hist
        /\ resultDir' = d.resultDir
        /\ IF d.err # "none"
           THEN resp' = [op |-> "index", err |-> d.err, at |-> d.at,
                         val |-> NoVal]
           ELSE resp' \in RenderOn(d.hist, d.val)
        /\ UNCHANGED <<pc, prec, pdata, writer>>

----------------------------------------------------------------------------
\* State after start-up: lines 18-20 make the directories, not the file

NoRecord == [none |-> TRUE]

Init ==
    /\ hist = Missing
    /\ resultDir = [n \in Images |-> NoImage]
    /\ call = [op |-> "none"]
    /\ resp = [op |-> "none", err |-> "none", at |-> 0, val |-> NoVal]
    /\ pc = [p \in Procs |-> "idle"]
    /\ prec = [p \in Procs |-> NoRecord]
    /\ pdata = [p \in Procs |-> <<>>]
    /\ writer = 0

Next ==
    \/ \E f \in Files, results \in ResultsSet, date \in Dates :
          DetectBall(f.name, f.readable, results, date)
    \/ GetStatistics
    \/ DownloadPdf
    \/ DownloadExcel
    \/ IndexGet
    \/ \E field \in BOOLEAN : IndexPostNoFile(field)
    \/ \E f \in Files, results \in ResultsSet, date \in Dates :
          IndexPostFile(f.name, f.readable, results, date)

Spec == Init /\ [][Next]_vars

----------------------------------------------------------------------------
\* The history file as a start-up can find it: absent, left empty by a
\* rewrite that was cut off after open(..., "w"), or left with text that is
\* not JSON by overlapping rewrites (RequestClose below produces it)

InitFault ==
    /\ hist \in {Missing, Empty, Garbage}
    /\ resultDir = [n \in Images |-> NoImage]
    /\ call = [op |-> "none"]
    /\ resp = [op |-> "none", err |-> "none", at |-> 0, val |-> NoVal]
    /\ pc = [p \in Procs |-> "idle"]
    /\ prec = [p \in Procs |-> NoRecord]
    /\ pdata = [p \in Procs |-> <<>>]
    /\ writer = 0

SpecFault == InitFault /\ [][Next]_vars

----------------------------------------------------------------------------
\* Two requests running detect_ball at once (the server runs a request per
\* thread).  Each file-system call of lines 62-71 is one step.

\* a history one earlier request wrote
OneRecord ==
    JsonDump(<<MakeRecord("2026-11-05 10:00:00", "a.jpg", InitScan)>>)

InitConc ==
    /\ hist \in {Missing, OneRecord}
    /\ resultDir = [n \in Images |-> NoImage]
    /\ call = [op |-> "none"]
    /\ resp = [op |-> "none", err |-> "none", at |-> 0, val |-> NoVal]
    /\ pc = [p \in Procs |-> "idle"]
    /\ prec = [p \in Procs |-> NoRecord]
    /\ pdata = [p \in Procs |-> <<>>]
    /\ writer = 0

\* lines 27-60: read the image, detect, write the result image, build the
\* record
RequestDetect(p, name, readable, results, date) ==
    LET scan == ScanResults(results, InitScan) IN
    /\ pc[p] = "idle"
    /\ IF readable
       THEN /\ resultDir' = [resultDir EXCEPT ![name] =
                                [present |-> TRUE, drawn |-> scan.drawn]]
            /\ prec' = [prec EXCEPT ![p] = MakeRecord(date, name, scan)]
            /\ pc' = [pc EXCEPT ![p] = "built"]
       ELSE /\ pc' = [pc EXCEPT ![p] = "failed"]
            /\ UNCHANGED <<resultDir, prec>>
    /\ UNCHANGED <<hist, call, resp, pdata, writer>>

\* line 62, and lines 65-68 when the test is false
RequestCheck(p) ==
    /\ pc[p] = "built"
    /\ IF HasContent(hist)
       THEN /\ pc' = [pc EXCEPT ![p] = "checked"]
            /\ UNCHANGED pdata
       ELSE /\ pdata' = [pdata EXCEPT ![p] = AppendRecord(<<>>, prec[p])]
            /\ pc' = [pc EXCEPT ![p] = "loaded"]
    /\ UNCHANGED <<hist, resultDir, call, resp, prec, writer>>

\* lines 63-64 and 68: the file is read as it is now, which another
\* request may have truncated or torn since line 62
RequestLoad(p) ==
    /\ pc[p] = "checked"
    /\ IF hist.state = "json"
       THEN /\ pdata' = [pdata EXCEPT ![p] =
                            AppendRecord(JsonLoad(hist), prec[p])]
            /\ pc' = [pc EXCEPT ![p] = "loaded"]
       ELSE /\ pc' = [pc EXCEPT ![p] = "failed"]
            /\ UNCHANGED pdata
    /\ UNCHANGED <<hist, resultDir, call, resp, prec, writer>>

\* line 70: open(HISTORY_FILE, "w") creates or truncates the file
RequestOpen(p) ==
    /\ pc[p] = "loaded"
    /\ hist' = Empty
    /\ pc' = [pc EXCEPT ![p] = "opened"]
    /\ UNCHANGED <<resultDir, call, resp, prec, pdata, writer>>

\* line 71 and the end of the with block: the text is written from offset
\* 0.  Text another request wrote since this request's open stays in the
\* file beyond the end of this text when it is the longer one.
RequestClose(p) ==
    /\ pc[p] = "opened"
    /\ \/ hist' = JsonDump(pdata[p])
       \/ /\ HasContent(hist)
          /\ hist' = Garbage
    /\ writer' = p
    /\ pc' = [pc EXCEPT ![p] = "done"]
    /\ UNCHANGED <<resultDir, call, resp, prec, pdata>>

NextConc ==
    \/ \E p \in Procs, f \in Files, results \in ResultsSet, date \in Dates :
          RequestDetect(p, f.name, f.readable, results, date)
    \/ \E p \in Procs : RequestCheck(p)
    \/ \E p \in Procs : RequestLoad(p)
    \/ \E p \in Procs : RequestOpen(p)
    \/ \E p \in Procs : RequestClose(p)

SpecConc == InitConc /\ [][NextConc]_vars

----------------------------------------------------------------------------
\* Vocabulary of the properties

\* the history log as a reload of the file gives it
LogOf(h) == IF h.state = "json" THEN JsonLoad(h) ELSE <<>>

Abs(x) == IF x < 0 THEN 0 - x ELSE x

\* the collaborator returned no detection of class 32
NoBallReturned(results) ==
    \A i \in 1..Len(results) : \A j \in 1..Len(results[i]) :
        results[i][j].cls # 32


\* everything the collaborator returned, in iteration order
RECURSIVE AllBoxes(_)
AllBoxes(results) ==
    IF results = <<>> THEN <<>>
    ELSE Head(results) \o AllBoxes(Tail(results))

FirstBallOf(boxes) ==
    boxes[CHOOSE i \in 1..Len(boxes) :
             /\ boxes[i].cls = 32
             /\ \A j \in 1..(i - 1) : boxes[j].cls # 32]

RECURSIVE SumHundredths(_, _)
SumHundredths(log, n) ==
    IF n = 0 THEN 0 ELSE log[n].confidence + SumHundredths(log, n - 1)

FoundIn(log) == Cardinality({ i \in 1..Len(log) : log[i].ball_detected })

ZeroStats == [total_images |-> 0, found |-> 0, not_found |-> 0,
              avg_confidence |-> 0]

ZeroSummary == [total_images |-> 0, found |-> 0, not_found |-> 0,
                avg_percent |-> 0]

----------------------------------------------------------------------------
\* C1: a detect_ball call on a readable image for which the collaborator
\* returns no class-32 detection returns a record with ball_detected false,
\* confidence 0 and bbox null, and the log holds exactly one more record
\* after the call than before it.
C1_NoBallRecord ==
    [][ (call'.op = "detect_ball" /\ call'.readable
                                   /\ 32 \notin call'.classes)
          => /\ resp'.err = "none"
             /\ resp'.val.record.ball_detected = FALSE
             /\ resp'.val.record.confidence = 0
             /\ resp'.val.record.bbox = None
             /\ Len(LogOf(hist')) = Len(LogOf(hist)) + 1 ]_vars

C1_Witness ==
    /\ call.op = "detect_ball"
    /\ call.readable
    /\ call.classes = {0}
    /\ resp.err = "none"
    /\ ~resp.val.record.ball_detected
    /\ Len(LogOf(hist)) = 2

\* C2: when the collaborator returns at least one class-32 detection, the
\* record holds the truncated box and the rounded confidence of the first
\* class-32 detection over all result objects and boxes in iteration
\* order, and the image carries that one annotation and no other.
C2_FirstBallOverall ==
    [][ \A f \in Files, results \in ResultsSet, date \in Dates :
          ( /\ call'.op = "detect_ball"
            /\ f.readable
            /\ ~NoBallReturned(results)
            /\ DetectBall(f.name, f.readable, results, date) )
          => LET first == FirstBallOf(AllBoxes(results)) IN
             /\ resp'.err = "none"
             /\ resp'.val.record.ball_detected
             /\ resp'.val.record.bbox = IntBox(first.xyxy)
             /\ resp'.val.record.confidence = Round2(first.conf)
             /\ Len(resultDir'[f.name].drawn) = 1 ]_vars

\* C3: every record of the log has bbox null exactly when ball_detected is
\* false, and confidence 0 whenever ball_detected is false.
C3_RecordShape ==
    \A i \in 1..Len(LogOf(hist)) :
        LET r == LogOf(hist)[i] IN
        /\ (r.bbox = None) <=> ~r.ball_detected
        /\ ~r.ball_detected => r.confidence = 0

C3_Witness ==
    /\ Len(LogOf(hist)) = 2
    /\ \E i, j \in 1..2 :
          /\ LogOf(hist)[i].ball_detected
          /\ ~LogOf(hist)[j].ball_detected

\* C4: every sequential operation leaves the log unchanged or, for a
\* completed detection, turns the log L into L followed by exactly the
\* record that detect_ball returned, as a reload of the file gives it.
C4_AppendOnly ==
    [][ \/ hist' = hist
        \/ /\ resp'.err = "none"
           /\ call'.op \in {"detect_ball", "index"}
           /\ LET old == LogOf(hist)
                  new == LogOf(hist')
                  returned == IF call'.op = "detect_ball"
                              THEN resp'.val.record
                              ELSE resp'.val.result.record
              IN  /\ Len(new) = Len(old) + 1
                  /\ SubSeq(new, 1, Len(old)) = old
                  /\ new[Len(new)] = returned ]_vars

C4_Witness ==
    /\ call.op = "detect_ball"
    /\ resp.err = "none"
    /\ Len(LogOf(hist)) = 2
    /\ LogOf(hist)[1] # LogOf(hist)[2]
    /\ LogOf(hist)[2] = resp.val.record
    /\ resp.val.record.ball_detected

\* C5: for the log of N records of which F have a ball, get_statistics
\* returns total N, found F, not_found N - F and the mean of all N
\* confidences rounded to 2 decimals; all four are 0 for the empty log.
C5_Statistics ==
    (resp.op = "get_statistics" /\ resp.err = "none") =>
        LET log == LogOf(hist)
            n == Len(log)
            st == resp.val
        IN  /\ st.total_images = n
            /\ st.found = FoundIn(log)
            /\ st.not_found = n - FoundIn(log)
            /\ st.found + st.not_found = st.total_images
            /\ n = 0 => st = ZeroStats
            /\ n > 0 => 2 * Abs(st.avg_confidence * n
                                - SumHundredths(log, n)) <= n

C5_Witness ==
    /\ resp.op = "get_statistics"
    /\ resp.err = "none"
    /\ resp.val.total_images = 2
    /\ resp.val.found = 1
    /\ resp.val.avg_confidence > 0

\* C6: two concurrent requests that both read the same log and both
\* complete leave, when the file holds JSON, exactly what the request that
\* wrote last held: the log they read followed by that request's record
\* alone, one record more and not two.
C6_LastWriterWins ==
    ( /\ \A p \in Procs : pc[p] = "done"
      /\ hist.state = "json"
      /\ SubSeq(pdata[1], 1, Len(pdata[1]) - 1)
           = SubSeq(pdata[2], 1, Len(pdata[2]) - 1) )
    => LET read == SubSeq(pdata[writer], 1, Len(pdata[writer]) - 1) IN
       /\ LogOf(hist) = pdata[writer]
       /\ LogOf(hist) = Append(read, prec[writer])
       /\ Len(LogOf(hist)) = Len(read) + 1

C6_Witness ==
    /\ \A p \in Procs : pc[p] = "done"
    /\ hist.state = "json"
    /\ writer = 2
    /\ Len(pdata[1]) = 2
    /\ Len(pdata[2]) = 2
    /\ pdata[1][1] = pdata[2][1]
    /\ prec[1] # prec[2]
    /\ Len(LogOf(hist)) = 2
    /\ \A i \in 1..2 : LogOf(hist)[i] # prec[1]

\* the operation invoked reaches its read of the history file
ReachesRead(c) ==
    \/ c.op \in {"get_statistics", "download_pdf", "download_excel"}
    \/ c.op = "detect_ball" /\ c.readable
    \/ c.op = "index" /\ c.method = "GET"
    \/ c.op = "index" /\ c.method = "POST" /\ c.field
         /\ (c.filename = "" \/ c.readable)

\* the operation c, answering r and leaving the file h, went on as with an
\* empty history
AsWithEmptyHistory(c, r, h) ==
    /\ r.err = "none"
    /\ c.op = "detect_ball" => LogOf(h) = <<r.val.record>>
    /\ c.op = "get_statistics" => r.val = ZeroStats
    /\ c.op = "download_pdf" =>
          r.val.lines = <<>> /\ r.val.summary = ZeroSummary
    /\ c.op = "download_excel" =>
          /\ r.val.rows = <<>>
          /\ r.val.summary.explanation = ZeroSummary
          /\ r.val.summary.ball_detected = 0
          /\ r.val.summary.confidence.num = 0
    /\ (c.op = "index" /\ r.val.result = NoVal) =>
          r.val.history = <<>> /\ r.val.stats = ZeroStats
    /\ (c.op = "index" /\ r.val.result # NoVal) =>
          /\ LogOf(h) = <<r.val.result.record>>
          /\ r.val.history = LogOf(h)

\* C7, as stated: an operation that reads a missing or corrupt history file
\* does not fail and goes on as with the empty list.
C7_MissingOrCorruptIsEmpty ==
    [][ (hist.state \in {"missing", "garbage"} /\ ReachesRead(call'))
        => AsWithEmptyHistory(call', resp', hist') ]_vars

\* C7, amended: an operation that reads a missing or zero-byte history file
\* does not fail and goes on as with the empty list; on a file that is not
\* empty and not JSON, json.load raises, the operation fails and the file
\* stays as it is.
C7_MissingIsEmptyCorruptRaises ==
    [][ ReachesRead(call') =>
          /\ hist.state \in {"missing", "empty"} =>
                AsWithEmptyHistory(call', resp', hist')
          /\ hist.state = "garbage" =>
                /\ resp'.err = "JSONDecodeError"
                /\ resp'.val = NoVal
                /\ hist' = hist ]_vars

C7_Witness ==
    /\ hist.state = "garbage"
    /\ call.op = "detect_ball"
    /\ call.readable
    /\ resp.err = "JSONDecodeError"
    /\ resultDir["a.jpg"].present

\* C8, as stated: detect_ball on a file that cannot be read as an image
\* fails with an IOError and leaves the history log as it was.
C8_UnreadableIOError ==
    [][ (call'.op = "detect_ball" /\ ~call'.readable)
          => /\ resp'.err = "IOError"
             /\ hist' = hist ]_vars

\* C8, amended: detect_ball on a file that cannot be read as an image
\* fails with a cv2.error (cv2.imread returns None without raising; the
\* error comes from the first drawing call or from cv2.imwrite) before the
\* history is touched: no record is created, no result image is written.
C8_UnreadableCv2Error ==
    [][ (call'.op = "detect_ball" /\ ~call'.readable)
          => /\ resp'.err = "cv2.error"
             /\ resp'.at = (IF 32 \in call'.classes THEN 44 ELSE 51)
             /\ resp'.val = NoVal
             /\ hist' = hist
             /\ resultDir' = resultDir ]_vars

C8_Witness ==
    /\ call.op = "detect_ball"
    /\ ~call.readable
    /\ resp.err = "cv2.error"
    /\ resp.at = 51
    /\ Len(LogOf(hist)) = 1

\* the page a GET renders for the history file h
IsGetPage(r, h) ==
    /\ r.err = "none"
    /\ r.val.result = NoVal
    /\ r.val.history = LogOf(h)
    /\ r.val.stats.total_images = Len(LogOf(h))
    /\ r.val.stats.found = FoundIn(LogOf(h))
    /\ r.val.stats \in StatsOf(LogOf(h))

NoFilePost(c) == c.op = "index" /\ c.method = "POST" /\ c.filename = ""

\* C9, as stated: a POST without an image field, or with an image field
\* whose file is empty, performs no detection, changes neither the log nor
\* the result directory, and renders the page as a GET would.
C9_NoFileRendersPage ==
    [][ NoFilePost(call') =>
          /\ hist' = hist
          /\ resultDir' = resultDir
          /\ IsGetPage(resp', hist) ]_vars

\* C9, amended: a POST whose image field has no file selected (empty file
\* name) performs no detection and renders the page as a GET would; a POST
\* without an image field performs no detection either, but fails with a
\* 400 BadRequestKeyError at request.files["image"] and renders nothing.
C9_NoFileRendersOrBadRequest ==
    [][ NoFilePost(call') =>
          /\ hist' = hist
          /\ resultDir' = resultDir
          /\ call'.field => IsGetPage(resp', hist)
          /\ ~call'.field =>
                /\ resp'.err = "BadRequestKeyError"
                /\ resp'.at = 183
                /\ resp'.val = NoVal ]_vars

C9_Witness ==
    /\ NoFilePost(call)
    /\ call.field
    /\ resp.err = "none"
    /\ Len(resp.val.history) = 2
    /\ resp.val.stats.found = 1

\* the four summary values of a report
SummaryOf(r) ==
    IF r.op = "download_pdf" THEN r.val.summary
    ELSE r.val.summary.explanation

IsReport(r) ==
    r.op \in {"download_pdf", "download_excel"} /\ r.err = "none"

\* C10, as stated: the summary of a report carries the four values that
\* get_statistics returns for the same log, the average being the one
\* rounded to 2 decimals.
C10_SummaryIsStatistics ==
    IsReport(resp) =>
        \E st \in StatsOf(LogOf(hist)) :
            /\ SummaryOf(resp).total_images = st.total_images
            /\ SummaryOf(resp).found = st.found
            /\ SummaryOf(resp).not_found = st.not_found
            /\ SummaryOf(resp).avg_percent = 10 * st.avg_confidence

\* C10, amended: the summary of a report carries the total, found and
\* not-found counts that get_statistics returns for the same log; its
\* average is the mean of the same confidences without the rounding to 2
\* decimals, printed as a percentage with 1 decimal (and left unrounded in
\* the Excel confidence cell); all values are 0 for the empty log.
C10_SummaryCountsAndRawMean ==
    IsReport(resp) =>
        LET log == LogOf(hist)
            n == Len(log)
            sm == SummaryOf(resp)
        IN  /\ \A st \in StatsOf(log) :
                  /\ sm.total_images = st.total_images
                  /\ sm.found = st.found
                  /\ sm.not_found = st.not_found
            /\ n = 0 => sm = ZeroSummary
            /\ n > 0 => 2 * Abs(sm.avg_percent * n
                                - 10 * SumHundredths(log, n)) <= n
            /\ resp.op = "download_excel" =>
                  /\ resp.val.summary.ball_detected = FoundIn(log)
                  /\ resp.val.summary.confidence.num
                       = (IF n > 0 THEN SumHundredths(log, n) ELSE 0)
                  /\ resp.val.summary.confidence.den
                       = (IF n > 0 THEN n ELSE 1)

C10_Witness ==
    /\ IsReport(resp)
    /\ resp.op = "download_pdf"
    /\ SummaryOf(resp).total_images = 2
    /\ SummaryOf(resp).found = 2
    /\ SummaryOf(resp).avg_percent % 10 # 0

====
